---- MODULE Spec2Model ----
(***************************************************************************)
(* Model of two modules of meqtrees-cattery:                               *)
(*   Siamese/OMS/analytic_beams.py    (WSRT_cos3_beam, compute_jones,      *)
(*                                     compute_jones_tensor)               *)
(*   Calico/OMS/solvable_sky_jones.py (DiagAmplPhase, FullRealImag,        *)
(*                                     DiagRealImag, IntrinsicFR)          *)
(*                                                                         *)
(* Python strings that the code parses are sequences of one-character      *)
(* strings.  A node of the tree is a record [name, def]; a node name is a  *)
(* record [base, quals] (the stub's name and its qualifiers).  Python's    *)
(* None is "None" for string-valued things and <<>> for tuples and lists.  *)
(***************************************************************************)
EXTENDS Integers, Sequences, FiniteSets, TLC

VARIABLES
  opts,     \* option attributes set on the instance / module by TDLOption
  beam,     \* private state of the WSRT_cos3_beam instance in MODELS
  nodes,    \* nodes defined so far in the node scope
  errors,   \* names of nodes whose redefinition with another definition was reported
  attrs,    \* source attributes written with set_attr
  groups,   \* ParmGroup.ParmGroup objects registered, in order
  jobs,     \* ParmGroup.SolveJob names registered, in order
  folders,  \* bookmark folders made with Bookmarks.make_node_folder
  call      \* the last call made: its operation, arguments and outcome

vars == <<opts, beam, nodes, errors, attrs, groups, jobs, folders, call>>

(***************************************************************************)
(* Bounds of the model                                                     *)
(***************************************************************************)
MaxDishLen == 2
MaxSources == 2
MaxStations == 2
MaxSubsetLen == 3

(***************************************************************************)
(* Python values and helpers                                               *)
(***************************************************************************)
None == "None"

StringsUpTo(chars, n) == UNION { [1..k -> chars] : k \in 0..n }

Whitespace == {" "}
DigitChars == <<"0", "1", "2", "3", "4", "5", "6", "7", "8", "9">>
Digits == { DigitChars[i] : i \in 1..10 }
DigitVal(c) == (CHOOSE i \in 1..10 : DigitChars[i] = c) - 1

Return(v) == [kind |-> "return", exc |-> "", msg |-> "", val |-> v]
Raise(e, m) == [kind |-> "raise", exc |-> e, msg |-> m, val |-> ""]

Min(a, b) == IF a <= b THEN a ELSE b

\* F(v), with v evaluated once before F uses it
Force(v, F(_)) == CHOOSE r \in { F(x) : x \in {v} } : TRUE

\* seq[i] with Python's list indexing: negative indices count from the end
PyIndexOK(seq, i) == (i >= 0 /\ i < Len(seq)) \/ (i < 0 /\ -i <= Len(seq))
PyIndex(seq, i) == IF i >= 0 THEN seq[i + 1] ELSE seq[Len(seq) + i + 1]

\* str.split(): the maximal runs of non-whitespace characters
RECURSIVE SplitAcc(_, _, _, _)
SplitAcc(s, i, cur, out) ==
  IF i > Len(s) THEN (IF cur # <<>> THEN Append(out, cur) ELSE out)
  ELSE IF s[i] \in Whitespace
       THEN SplitAcc(s, i + 1, <<>>, IF cur # <<>> THEN Append(out, cur) ELSE out)
       ELSE SplitAcc(s, i + 1, Append(cur, s[i]), out)
SplitWS(s) == SplitAcc(s, 1, <<>>, <<>>)

\* float(tok) over the modelled alphabet: a non-empty run of digits parses
IsFloat(tok) == tok # <<>> /\ \A i \in 1..Len(tok) : tok[i] \in Digits
RECURSIVE ParseNum(_)
ParseNum(tok) ==
  IF tok = <<>> THEN 0
  ELSE 10 * ParseNum(SubSeq(tok, 1, Len(tok) - 1)) + DigitVal(tok[Len(tok)])

(***************************************************************************)
(* Node graph (Timba.TDL node stubs and the << operator)                   *)
(***************************************************************************)
NodeName(base, quals) == [base |-> base, quals |-> quals]
Qual(name, q) == [name EXCEPT !.quals = Append(@, q)]
NodeDef(cls, children, num, str) ==
  [cls |-> cls, children |-> children, num |-> num, str |-> str]
Graph(nd, er) == [nodes |-> nd, errors |-> er]

IsDefined(g, name) == \E n \in g.nodes : n.name = name
DefOf(g, name) == (CHOOSE n \in g.nodes : n.name = name).def

\* name << def: a stub not yet initialized takes the definition; binding an
\* initialized stub to the same definition changes nothing, and to another
\* definition is reported to the scope and leaves the first definition.
Bind(g, name, def) ==
  IF ~IsDefined(g, name)
  THEN [g EXCEPT !.nodes = @ \cup {[name |-> name, def |-> def]}]
  ELSE IF DefOf(g, name) = def THEN g
       ELSE [g EXCEPT !.errors = @ \cup {name}]

(***************************************************************************)
(* Siamese/OMS/analytic_beams.py                                           *)
(***************************************************************************)
\* the labels of the models in MODELS, in order
MODELS == <<"wsrt_cos3">>

DishChars == {"2", "5", " ", "x"}
DishStrings == StringsUpTo(DishChars, MaxDishLen)
DefaultDishSizes == <<"2", "5">>

BeamInit ==
  [_prepared |-> FALSE, has_sizes |-> FALSE, _sizes |-> <<>>,
   _per_station |-> FALSE, _ellnode |-> NodeName(None, <<>>), ns |-> None]

NoNode == NodeName(None, <<>>)
ScopeNode(ns, base) == NodeName(ns \o "::" \o base, <<>>)

\* WSRT_cos3_beam.prepare(ns): result is [beam, g, ret]
PreparedTooEarly(b, o, ns, g) ==
  LET toks == SplitWS(o.dish_sizes)
      b1 == [b EXCEPT !.ns = ns, !._prepared = TRUE]
  IN  IF \E i \in 1..Len(toks) : ~IsFloat(toks[i])
      THEN [beam |-> b1, g |-> g,
            ret |-> Raise("RuntimeError", "illegal dish sizes specification")]
      ELSE [beam |-> [b1 EXCEPT !.has_sizes = TRUE,
                                !._sizes = [i \in 1..Len(toks) |-> ParseNum(toks[i])]],
            g |-> g, ret |-> Return(None)]
Prepare(b, o, ns, g) ==
  IF b._prepared THEN [beam |-> b, g |-> g, ret |-> Return(None)]
  ELSE
    LET b1 == [b EXCEPT !.ns = ns]
        toks == SplitWS(o.dish_sizes)
    IN  IF \E i \in 1..Len(toks) : ~IsFloat(toks[i])
        THEN [beam |-> b1, g |-> g,
              ret |-> Raise("RuntimeError", "illegal dish sizes specification")]
        ELSE
          LET sizes == [i \in 1..Len(toks) |-> ParseNum(toks[i])]
              ellname == ScopeNode(ns, "ell")
              withell == o.ell # 0
          IN  [beam |-> [b1 EXCEPT !.has_sizes = TRUE,
                                   !._sizes = sizes,
                                   !._per_station = Len(sizes) > 1,
                                   !._ellnode = IF withell THEN ellname ELSE NoNode,
                                   !._prepared = TRUE],
               g |-> IF withell
                     THEN Bind(g, ellname, NodeDef("Constant", <<>>, <<o.ell, -o.ell>>, <<>>))
                     ELSE g,
               ret |-> Return(None)]

\* WSRT_cos3_beam.compute(E,lm,pointing,p): result is [g, ret]
Compute(b, o, E, lm, pointing, p, g) ==
  IF ~b.has_sizes
  THEN [g |-> g, ret |-> Raise("AttributeError", "_sizes")]
  ELSE
    LET idx == Min(p, Len(b._sizes) - 1)
    IN  IF ~PyIndexOK(b._sizes, idx)
        THEN [g |-> g, ret |-> Raise("IndexError", "list index out of range")]
        ELSE
          LET clip == IF o.newstar_clip THEN -o.clip ELSE o.clip
              size == PyIndex(b._sizes, idx)
              dlm0 == ScopeNode(b.ns, "dlm_0")
              g1 == IF pointing = NoNode
                    THEN Bind(g, dlm0, NodeDef("Constant", <<>>, <<0, 0>>, <<>>))
                    ELSE g
              pt == IF pointing = NoNode THEN dlm0 ELSE pointing
              kids == IF b._ellnode # NoNode THEN <<lm, pt, b._ellnode>> ELSE <<lm, pt>>
          IN  [g |-> Bind(g1, E, NodeDef("WSRTCos3Beam", kids, <<o.bf, size, clip>>, <<>>)),
               ret |-> Return(E.base)]

\* WSRT_cos3_beam.compute_tensor
ComputeTensor(b, o, E, lm, pointing, p, g) == Compute(b, o, E, lm, pointing, p, g)

\* the model the loop "for beam_model in MODELS" stops at, or None.  The test
\* reads the module global "model", which the list comprehension of
\* _model_option left bound to the last entry of MODELS.
SelectsWhenUnset(use) ==
  LET model == MODELS[Len(MODELS)]
  IN  IF use[model] # "True" THEN MODELS[1] ELSE None
SelectModel(use) ==
  LET model == MODELS[Len(MODELS)]
  IN  IF use[model] = "True" THEN MODELS[1] ELSE None

StationNames == <<"p0", "p1", "p2", "p3">>
ContextStations == SubSeq(StationNames, 1, MaxStations)
StationArgs == { SubSeq(StationNames, 1, k) : k \in 0..MaxStations }
\* stations = stations or Context.array.stations()
Stations(arg) == IF arg = <<>> THEN ContextStations ELSE arg

SourceNames == {"A", "AB", "B"}
DistinctSeqs(S, n) ==
  { s \in UNION { [1..k -> S] : k \in 0..n } :
      \A i, j \in 1..Len(s) : i # j => s[i].name # s[j].name }

BeamSourceNames == {"A", "B"}
BeamSource ==
  [name : BeamSourceNames, beam_lm : {<<>>, <<3, 4>>}, lm_ncp : {<<>>, <<1, 0>>},
   lmn_static : {<<>>, <<0, 2, 1>>}]
BeamSourceLists == DistinctSeqs(BeamSource, MaxSources)

\* a or b
Or(a, b) == IF a # <<>> THEN a ELSE b

\* the value set_attr stores stands for sqrt(l^2+m^2)/pi*(180*60): kept as l^2+m^2
RadiusOf(lm) == lm[1] * lm[1] + lm[2] * lm[2]
DirectionLm(src) == NodeName("lm", <<src.name>>)

\* first loop of compute_jones: st is [g, attrs, lmsrc]
RECURSIVE LmLoop(_, _, _, _, _)
LmLoop(i, sources, label, ns, st) ==
  IF i > Len(sources) THEN st
  ELSE
    LET src == sources[i]
        lm == Or(src.beam_lm, src.lm_ncp)
        lmnode == NodeName(ns \o "::lm", <<src.name>>)
        const(v) == [st EXCEPT
                       !.attrs = { a \in @ : ~(a.src = src.name /\ a.key = label \o "r") }
                                 \cup {[src |-> src.name, key |-> label \o "r", val |-> RadiusOf(v)]},
                       !.g = Bind(@, lmnode, NodeDef("Constant", <<>>, v, <<>>)),
                       !.lmsrc = Append(@, lmnode)]
    IN  Force(IF lm # <<>> THEN const(lm)
              ELSE IF src.lmn_static # <<>> THEN const(SubSeq(src.lmn_static, 1, 2))
                   ELSE [st EXCEPT !.lmsrc = Append(@, DirectionLm(src))],
              LAMBDA st1 : LmLoop(i + 1, sources, label, ns, st1))

PointingOf(pointing_offsets, p) ==
  IF pointing_offsets = None THEN NoNode ELSE NodeName(pointing_offsets, <<p>>)

\* second loop of compute_jones, over (source, station) pairs in order: st is [g, ret]
RECURSIVE BeamLoop(_, _, _, _, _, _, _, _, _)
BeamLoop(k, Jones, sources, stations, lmsrc, pointing_offsets, b, o, st) ==
  IF k > Len(sources) * Len(stations) \/ st.ret.kind = "raise" THEN st
  ELSE
    LET i == ((k - 1) \div Len(stations)) + 1
        ip == (k - 1) % Len(stations)
        p == stations[ip + 1]
        r == Compute(b, o, NodeName(Jones, <<sources[i].name, p>>), lmsrc[i],
                     PointingOf(pointing_offsets, p), ip, st.g)
    IN  Force([g |-> r.g, ret |-> IF r.ret.kind = "raise" THEN r.ret ELSE st.ret],
              LAMBDA st1 : BeamLoop(k + 1, Jones, sources, stations, lmsrc,
                                    pointing_offsets, b, o, st1))

\* compute_jones of analytic_beams: result is [beam, g, attrs, ret]
BeamComputeJones(Jones, sources, stationsArg, label, pointing_offsets, b, o) ==
  LET stations == Stations(stationsArg)
      ns == Jones
      g0 == Graph({}, {})
      beam_model == SelectModel(o.use)
  IN  IF beam_model = None
      THEN [beam |-> b, g |-> g0, attrs |-> {}, model |-> None,
            ret |-> Raise("RuntimeError", "no beam model selected")]
      ELSE
        LET pr == Prepare(b, o, ns, g0)
        IN  IF pr.ret.kind = "raise"
            THEN [beam |-> pr.beam, g |-> pr.g, attrs |-> {}, model |-> beam_model,
                  ret |-> pr.ret]
            ELSE
              LET l == LmLoop(1, sources, label, ns,
                              [g |-> pr.g, attrs |-> {}, lmsrc |-> <<>>])
                  c == BeamLoop(1, Jones, sources, stations, l.lmsrc, pointing_offsets,
                                pr.beam, o, [g |-> l.g, ret |-> Return(Jones)])
              IN  [beam |-> pr.beam, g |-> c.g, attrs |-> l.attrs, model |-> beam_model,
                   ret |-> c.ret]

\* loop of compute_jones_tensor over the stations: st is [g, ret]
RECURSIVE TensorLoop(_, _, _, _, _, _, _, _)
TensorLoop(k, Jones, stations, lmn, pointing_offsets, b, o, st) ==
  IF k > Len(stations) \/ st.ret.kind = "raise" THEN st
  ELSE
    LET p == stations[k]
        r == ComputeTensor(b, o, NodeName(Jones, <<p>>), lmn,
                           PointingOf(pointing_offsets, p), k - 1, st.g)
    IN  Force([g |-> r.g, ret |-> IF r.ret.kind = "raise" THEN r.ret ELSE st.ret],
              LAMBDA st1 : TensorLoop(k + 1, Jones, stations, lmn, pointing_offsets,
                                      b, o, st1))

\* the lm values of the constant tensor, flattened source by source
RECURSIVE Flatten(_)
Flatten(ss) == IF ss = <<>> THEN <<>> ELSE Head(ss) \o Flatten(Tail(ss))

\* compute_jones_tensor of analytic_beams: result is [beam, g, attrs, ret].
\* Every model in MODELS has a compute_tensor method.
BeamComputeJonesTensor(Jones, sources, stationsArg, lmnArg, label, pointing_offsets, b, o) ==
  LET stations == Stations(stationsArg)
      ns == Jones
      g0 == Graph({}, {})
      beam_model == SelectModel(o.use)
  IN  IF beam_model = None
      THEN [beam |-> b, g |-> g0, attrs |-> {}, model |-> None,
            ret |-> Raise("RuntimeError", "no beam model selected")]
      ELSE
        LET pr == Prepare(b, o, ns, g0)
        IN  IF pr.ret.kind = "raise"
            THEN [beam |-> pr.beam, g |-> pr.g, attrs |-> {}, model |-> beam_model,
                  ret |-> pr.ret]
            ELSE
              LET lmsrc == [i \in 1..Len(sources) |-> Or(sources[i].beam_lm, sources[i].lm_ncp)]
                  lmnT == ScopeNode(ns, "lmnT")
                  allconst == \A i \in 1..Len(sources) : lmsrc[i] # <<>>
                  g1 == IF allconst
                        THEN Bind(pr.g, lmnT, NodeDef("Constant", <<>>, Flatten(lmsrc), <<>>))
                        ELSE pr.g
                  lmn1 == IF allconst THEN lmnT ELSE lmnArg
                  g2 == IF lmn1 = NoNode
                        THEN Bind(g1, lmnT,
                                  NodeDef("Composer",
                                          [i \in 1..Len(sources) |-> DirectionLm(sources[i])],
                                          <<0>>, <<>>))
                        ELSE g1
                  lmn == IF lmn1 = NoNode THEN lmnT ELSE lmn1
                  c == TensorLoop(1, Jones, stations, lmn, pointing_offsets, pr.beam, o,
                                  [g |-> g2, ret |-> Return(Jones)])
              IN  [beam |-> pr.beam, g |-> c.g, attrs |-> {}, model |-> beam_model,
                   ret |-> c.ret]

(***************************************************************************)
(* State machine of analytic_beams                                         *)
(***************************************************************************)
NoCall ==
  [op |-> "none", cls |-> "", sources |-> <<>>, stations |-> <<>>, label |-> "",
   arg |-> <<>>, pre |-> FALSE, retry |-> FALSE, ret |-> Return(None)]

BeamOpts(use, dish, ell, newstar) ==
  [use |-> [m \in {MODELS[i] : i \in 1..Len(MODELS)} |-> use],
   bf |-> 65, ell |-> ell, clip |-> 1, newstar_clip |-> newstar, dish_sizes |-> dish]

Toggles == {"unset", "False", "True"}
\* dish_sizes values of the module-level runs: empty, the default, unparsable, two sizes
BeamDishChoices == {<<>>, DefaultDishSizes, <<"x">>, <<"2", " ", "5">>}

InitRest ==
  /\ nodes = {} /\ errors = {} /\ attrs = {}
  /\ groups = <<>> /\ jobs = <<>> /\ folders = <<>>
  /\ call = NoCall

\* the module after import, with the compile-time options as the user set them
InitBeam ==
  /\ \E use \in Toggles, dish \in BeamDishChoices, ell \in {0, 1} :
       opts = BeamOpts(use, dish, ell, FALSE)
  /\ beam = BeamInit
  /\ InitRest

\* One model-assembly pass: the framework calls one of the two entry points.
compute_jones ==
  /\ call.op = "none"
  /\ \E sources \in BeamSourceLists, stationsArg \in StationArgs,
     pointing_offsets \in {None, "dlm"} :
    \E r \in {BeamComputeJones("E", sources, stationsArg, "beam", pointing_offsets, beam, opts)} :
        /\ beam' = r.beam
        /\ nodes' = r.g.nodes
        /\ errors' = r.g.errors
        /\ attrs' = r.attrs
        /\ call' = [op |-> "compute_jones", cls |-> "analytic_beams", sources |-> sources,
                    stations |-> Stations(stationsArg), label |-> "beam",
                    arg |-> <<r.model>>, pre |-> beam._prepared, retry |-> FALSE,
                    ret |-> r.ret]
        /\ UNCHANGED <<opts, groups, jobs, folders>>

compute_jones_tensor ==
  /\ call.op = "none"
  /\ \E sources \in BeamSourceLists, stationsArg \in StationArgs,
     lmnArg \in {NoNode, NodeName("lmn", <<>>)}, pointing_offsets \in {None, "dlm"} :
    \E r \in {BeamComputeJonesTensor("E", sources, stationsArg, lmnArg, "beam",
                                    pointing_offsets, beam, opts)} :
        /\ beam' = r.beam
        /\ nodes' = r.g.nodes
        /\ errors' = r.g.errors
        /\ attrs' = r.attrs
        /\ call' = [op |-> "compute_jones_tensor", cls |-> "analytic_beams",
                    sources |-> sources, stations |-> Stations(stationsArg),
                    label |-> "beam", arg |-> <<r.model>>, pre |-> beam._prepared,
                    retry |-> FALSE, ret |-> r.ret]
        /\ UNCHANGED <<opts, groups, jobs, folders>>

NextBeam == compute_jones \/ compute_jones_tensor
SpecBeam == InitBeam /\ [][NextBeam]_vars

(***************************************************************************)
(* State machine of one WSRT_cos3_beam object used through its methods     *)
(***************************************************************************)
\* the object after construction; 'ell' (in units of 0.01) as the user set it
InitPrepare ==
  /\ \E ell \in {0, 1} : opts = BeamOpts("True", DefaultDishSizes, ell, FALSE)
  /\ beam = BeamInit
  /\ InitRest

\* TDLOption 'dish_sizes' stores the string the user entered.  The entry is
\* edited one character at a time, so every string of DishStrings is reached.
DishEdits(cur) ==
  { s \in DishStrings :
      \/ Len(s) = Len(cur) + 1 /\ SubSeq(s, 1, Len(cur)) = cur
      \/ Len(cur) = Len(s) + 1 /\ SubSeq(cur, 1, Len(s)) = s }
set_dish_sizes ==
  \E s \in DishEdits(opts.dish_sizes) :
    /\ opts' = [opts EXCEPT !.dish_sizes = s]
    /\ call' = [NoCall EXCEPT !.op = "set_option"]
    /\ UNCHANGED <<beam, nodes, errors, attrs, groups, jobs, folders>>

prepare ==
  \E ns \in {"E"} :
    \E r \in {Prepare(beam, opts, ns, Graph(nodes, errors))} :
        /\ beam' = r.beam
        /\ nodes' = r.g.nodes
        /\ errors' = r.g.errors
        /\ call' = [NoCall EXCEPT !.op = "prepare", !.cls = "WSRT_cos3_beam",
                                  !.arg = opts.dish_sizes, !.pre = beam._prepared,
                                  !.retry = (~beam._prepared /\ beam.ns # None),
                                  !.ret = r.ret]
        /\ UNCHANGED <<opts, attrs, groups, jobs, folders>>

\* station numbers the methods are called with: the first station and a later one
StationIndexes == {0, 1}

compute ==
  \E p \in StationIndexes :
    LET E == NodeName("E", <<"A", StationNames[p + 1]>>)
        r == Compute(beam, opts, E, NodeName("lm", <<"A">>), NoNode, p,
                     Graph(nodes, errors))
    IN  /\ nodes' = r.g.nodes
        /\ errors' = r.g.errors
        /\ call' = [NoCall EXCEPT !.op = "compute", !.cls = "WSRT_cos3_beam",
                                  !.pre = beam._prepared, !.ret = r.ret]
        /\ UNCHANGED <<opts, beam, attrs, groups, jobs, folders>>

compute_tensor ==
  \E p \in StationIndexes :
    LET E == NodeName("E", <<StationNames[p + 1]>>)
        r == ComputeTensor(beam, opts, E, NodeName("lmn", <<>>), NoNode, p,
                           Graph(nodes, errors))
    IN  /\ nodes' = r.g.nodes
        /\ errors' = r.g.errors
        /\ call' = [NoCall EXCEPT !.op = "compute_tensor", !.cls = "WSRT_cos3_beam",
                                  !.pre = beam._prepared, !.ret = r.ret]
        /\ UNCHANGED <<opts, beam, attrs, groups, jobs, folders>>

NextPrepare == set_dish_sizes \/ prepare \/ compute \/ compute_tensor
SpecPrepare == InitPrepare /\ [][NextPrepare]_vars

(***************************************************************************)
(* Properties of analytic_beams                                            *)
(***************************************************************************)
NoModelSelected == Raise("RuntimeError", "no beam model selected")
IllegalDishSizes == Raise("RuntimeError", "illegal dish sizes specification")
ModelLabels == { MODELS[i] : i \in 1..Len(MODELS) }
IsBeamEntry == call.op \in {"compute_jones", "compute_jones_tensor"}

\* a whitespace-separated list of numbers, over the characters of DishChars
IsNumberList(s) == \A i \in 1..Len(s) : s[i] \in Digits \cup Whitespace

\* C3: compute_jones and compute_jones_tensor raise RuntimeError('no beam model
\* selected') exactly when no model of MODELS has its use_<label> toggle set to
\* a true value; when they raise, no model was prepared and no node or source
\* attribute was defined; otherwise the model used is one whose toggle is set.
C3_NoBeamModelSelected ==
  IsBeamEntry =>
    /\ (call.ret = NoModelSelected) <=> (\A m \in ModelLabels : opts.use[m] # "True")
    /\ call.ret = NoModelSelected =>
         beam = BeamInit /\ nodes = {} /\ errors = {} /\ attrs = {}
    /\ call.ret # NoModelSelected =>
         /\ call.arg[1] \in ModelLabels
         /\ opts.use[call.arg[1]] = "True"
         /\ beam.ns = "E"

C3_Witness ==
  /\ call.op = "compute_jones_tensor"
  /\ call.ret = NoModelSelected
  /\ opts.use["wsrt_cos3"] = "False"
  /\ Len(call.sources) = 2
  /\ beam = BeamInit

\* C4 (as amended): on a model that is not yet prepared, prepare raises
\* RuntimeError('illegal dish sizes specification') whenever dish_sizes is not a
\* whitespace-separated list of numbers, and returns, prepared, when it is one;
\* when it raises, _prepared stays False and no ellipticity node exists, so the
\* next prepare call parses the option again; on a prepared model prepare
\* returns at once.
C4_PrepareUnpreparedModel ==
  call.op = "prepare" =>
    IF call.pre THEN call.ret = Return(None) /\ beam._prepared
    ELSE /\ ~IsNumberList(call.arg) => call.ret = IllegalDishSizes
         /\ IsNumberList(call.arg) => call.ret = Return(None) /\ beam._prepared
         /\ call.ret.kind = "raise" =>
              /\ ~beam._prepared
              /\ beam._ellnode = NoNode
              /\ ~IsDefined(Graph(nodes, errors), ScopeNode("E", "ell"))

\* a prepare call that raised is followed, once the option is corrected, by a
\* prepare call that parses it and prepares the model with an ellipticity node
C4_Witness ==
  /\ call.op = "prepare"
  /\ call.retry
  /\ call.ret = Return(None)
  /\ beam._prepared
  /\ beam._sizes = <<25>>
  /\ IsDefined(Graph(nodes, errors), ScopeNode("E", "ell"))

\* C4 as stated: prepare raises whenever dish_sizes is not a whitespace-separated
\* list of numbers, and the model then stays unprepared.
C4_PrepareAlwaysRaises ==
  (call.op = "prepare" /\ ~IsNumberList(call.arg)) =>
    (call.ret = IllegalDishSizes /\ ~beam._prepared)

\* C10: whenever prepare has returned without raising, the parsed list of dish
\* sizes is non-empty, and no later compute or compute_tensor call fails on the
\* dish size lookup.
C10_PreparedSizesNonEmpty ==
  /\ beam._prepared => Len(beam._sizes) >= 1
  /\ (call.op \in {"compute", "compute_tensor"} /\ call.pre) => call.ret.kind = "return"

\* the direction the claim C9 gives a source: beam_lm, else _lm_ncp, else the
\* first two static lmn coordinates, as a constant; else the direction's lm node
ConstantLmOf(src) ==
  IF src.beam_lm # <<>> THEN src.beam_lm
  ELSE IF src.lm_ncp # <<>> THEN src.lm_ncp
  ELSE IF src.lmn_static # <<>> THEN <<src.lmn_static[1], src.lmn_static[2]>>
  ELSE <<>>
FedDirectionOK(src, beamnode) ==
  LET lm == beamnode.def.children[1]
      g == Graph(nodes, errors)
  IN  IF ConstantLmOf(src) # <<>>
      THEN /\ IsDefined(g, lm)
           /\ DefOf(g, lm).cls = "Constant"
           /\ DefOf(g, lm).num = ConstantLmOf(src)
      ELSE lm = NodeName("lm", <<src.name>>)

\* C9: with a beam model selected (and a dish_sizes option that parses),
\* compute_jones returns Jones, having defined a beam node Jones(src,p) for
\* every given source and station and for no other pair, fed with the direction
\* of fixed priority, and having set '<label>r' exactly on the sources with a
\* constant direction.
C9_BeamNodePerSourceStation ==
  (call.op = "compute_jones" /\ opts.use["wsrt_cos3"] = "True"
     /\ IsNumberList(opts.dish_sizes)) =>
    /\ call.ret = Return("E")
    /\ \A i \in 1..Len(call.sources), k \in 1..Len(call.stations) :
         \E n \in nodes :
           /\ n.name = NodeName("E", <<call.sources[i].name, call.stations[k]>>)
           /\ n.def.cls = "WSRTCos3Beam"
           /\ FedDirectionOK(call.sources[i], n)
    /\ \A n \in nodes : n.name.base = "E" =>
         \E i \in 1..Len(call.sources), k \in 1..Len(call.stations) :
           n.name.quals = <<call.sources[i].name, call.stations[k]>>
    /\ \A i \in 1..Len(call.sources) :
         (\E a \in attrs : a.src = call.sources[i].name /\ a.key = "beamr")
           <=> ConstantLmOf(call.sources[i]) # <<>>

(***************************************************************************)
(* Calico/OMS/solvable_sky_jones.py: FullRealImag and DiagRealImag         *)
(***************************************************************************)
\* the names the model uses, in the order of Python's string comparison
NameOrder == <<"A", "AB", "B", "C">>
Sorted(S) == SelectSeq(NameOrder, LAMBDA n : n \in S)

\* the value of src.get_attr(name_tag): <<>> when the attribute is absent,
\* <<"str", v>> for a string and <<"int", v>> for a value that is not a string
IsStr(tagval) == tagval # <<>> /\ tagval[1] = "str"

\* self._offdiag as the two constructors set it
OffdiagEverywhere(cls) == TRUE
HasOffdiag(cls) == cls = "FullRealImag"

FriOpts(cls, matrix_type, name_tag, independent_solve) ==
  [cls |-> cls, matrix_type |-> matrix_type, init_diag |-> <<1, 0>>,
   init_offdiag |-> <<0, 0>>, name_tag |-> name_tag,
   independent_solve |-> independent_solve,
   _offdiag |-> HasOffdiag(cls)]

\* jones_name[src.name]
JonesName(src, o) ==
  IF o.name_tag # None /\ o.name_tag # ""
  THEN (IF IsStr(src.tag) THEN src.tag[2] ELSE src.name)
  ELSE src.name

Zero == NodeName("0", <<>>)
ParmDef(value, id, tags, sg) == NodeDef("Parm", <<>>, <<value, id>>, <<tags, sg>>)
TypeErrorNone == Raise("TypeError", "'NoneType' object has no attribute '__getitem__'")

\* make_element(jj,parmdef,*parmlists), for both matrix types.  s is
\* [g, parms, sg, ret] with parms and sg the two lists passed as parmlists.
MakeElement(s, jj, parmdef, o) ==
  IF s.ret.kind = "raise" THEN s
  ELSE IF parmdef = <<>> THEN [s EXCEPT !.ret = TypeErrorNone]
  ELSE
    LET real == o.matrix_type = "real"
        made == IF real THEN <<Qual(jj, "r")>> ELSE <<Qual(jj, "r"), Qual(jj, "i")>>
        g1 == Bind(s.g, Qual(jj, "r"), parmdef[1])
        g2 == IF real THEN g1 ELSE Bind(g1, Qual(jj, "i"), parmdef[2])
        g3 == Bind(g2, jj, NodeDef(IF real THEN "Identity" ELSE "ToComplex", made, <<>>, <<>>))
    IN  [s EXCEPT !.g = g3, !.parms = @ \o made, !.sg = @ \o made]

\* the guard of "(re)create parm definitions"
AlwaysNewPdefs(diag_pdefs, independent_solve) == TRUE
NeedNewPdefs(diag_pdefs, independent_solve) == diag_pdefs = <<>> \/ independent_solve

\* the body of "for p in stations" for one Jones name.  st is the state of the
\* loop over uniqnames; sgdiag and sgoff are carried in it.
DiagElement(st, jj, o) ==
  Force(MakeElement([g |-> st.g, parms |-> st.parms_diag, sg |-> st.sgdiag,
                     ret |-> st.ret], jj, st.diag_pdefs, o),
        LAMBDA e : [st EXCEPT !.g = e.g, !.parms_diag = e.parms, !.sgdiag = e.sg,
                              !.ret = e.ret])
OffdiagElement(st, jj, o) ==
  Force(MakeElement([g |-> st.g, parms |-> st.parms_offdiag, sg |-> st.sgoff,
                     ret |-> st.ret], jj, st.offdiag_pdefs, o),
        LAMBDA e : [st EXCEPT !.g = e.g, !.parms_offdiag = e.parms, !.sgoff = e.sg,
                              !.ret = e.ret])
FriStation(st, jones, src, p, pol, o) ==
  IF st.ret.kind = "raise" THEN st
  ELSE
    LET jj == NodeName(jones, <<src, p>>)
        xx == pol[1] \o pol[1]
        xy == pol[1] \o pol[2]
        yx == pol[2] \o pol[1]
        yy == pol[2] \o pol[2]
        kids == <<Qual(jj, xx), IF o._offdiag THEN Qual(jj, xy) ELSE Zero,
                  IF o._offdiag THEN Qual(jj, yx) ELSE Zero, Qual(jj, yy)>>
    IN  Force(DiagElement(st, Qual(jj, xx), o), LAMBDA e1 :
        Force(IF o._offdiag THEN OffdiagElement(e1, Qual(jj, xy), o) ELSE e1, LAMBDA e2 :
        Force(IF o._offdiag THEN OffdiagElement(e2, Qual(jj, yx), o) ELSE e2, LAMBDA e3 :
        Force(DiagElement(e3, Qual(jj, yy), o), LAMBDA e4 :
          IF e4.ret.kind = "raise" THEN e4
          ELSE [e4 EXCEPT !.g = Bind(@, jj, NodeDef("Matrix22", kids, <<>>, <<>>))]))))

RECURSIVE FriStations(_, _, _, _, _, _, _)
FriStations(k, st, jones, src, stations, pol, o) ==
  IF k > Len(stations) THEN st
  ELSE Force(FriStation(st, jones, src, stations[k], pol, o),
             LAMBDA st1 : FriStations(k + 1, st1, jones, src, stations, pol, o))

\* parm.initrec().solve_group = src for the parms of one Jones name
Relabel(g, parms, src) ==
  LET names == { parms[i] : i \in 1..Len(parms) }
  IN  [g EXCEPT !.nodes =
         { IF n.name \in names THEN [n EXCEPT !.def.str = <<@[1], src>>] ELSE n : n \in @ }]

\* the body of "for src in uniqnames"
FriName(st, jones, src, stations, pol, tags, o) ==
  IF st.ret.kind = "raise" THEN st
  ELSE
    LET sg == IF o.independent_solve THEN src ELSE ""
        fresh == NeedNewPdefs(st.diag_pdefs, o.independent_solve)
        id == st.npdefs + 1
        s1 == IF fresh
              THEN [st EXCEPT
                      !.npdefs = id,
                      !.diag_pdefs =
                         <<ParmDef(o.init_diag[1], id, tags \o " diag real", sg),
                           ParmDef(o.init_diag[2], id, tags \o " diag imag", sg)>>,
                      !.offdiag_pdfefs =
                         <<ParmDef(o.init_offdiag[2], id, tags \o " offdiag real", sg),
                           ParmDef(o.init_offdiag[2], id, tags \o " offdiag imag", sg)>>]
              ELSE st
    IN  Force([s1 EXCEPT !.sgdiag = <<>>, !.sgoff = <<>>], LAMBDA s1f :
        Force(FriStations(1, s1f, jones, src, stations, pol, o), LAMBDA s2 :
          IF s2.ret.kind = "raise" THEN s2
          ELSE [s2 EXCEPT
                  !.subgroups_diag = Append(@, [name |-> src, parms |-> s2.sgdiag]),
                  !.subgroups_offdiag = Append(@, [name |-> src, parms |-> s2.sgoff]),
                  !.g = IF o.independent_solve
                        THEN Relabel(@, s2.sgdiag \o s2.sgoff, src)
                        ELSE @]))

RECURSIVE FriNames(_, _, _, _, _, _, _, _)
FriNames(k, st, jones, uniqnames, stations, pol, tags, o) ==
  IF k > Len(uniqnames) THEN st
  ELSE Force(FriName(st, jones, uniqnames[k], stations, pol, tags, o),
             LAMBDA st1 : FriNames(k + 1, st1, jones, uniqnames, stations, pol, tags, o))

\* "for src in sources: if src.name != jones_name[src.name]: ..."
RECURSIVE FriIdentities(_, _, _, _, _, _)
FriIdentities(k, g, jones, sources, stations, o) ==
  IF k > Len(sources) * Len(stations) THEN g
  ELSE
    LET src == sources[((k - 1) \div Len(stations)) + 1]
        p == stations[((k - 1) % Len(stations)) + 1]
    IN  Force(IF src.name # JonesName(src, o)
              THEN Bind(g, NodeName(jones, <<src.name, p>>),
                        NodeDef("Identity", <<NodeName(jones, <<JonesName(src, o), p>>)>>,
                                <<>>, <<>>))
              ELSE g,
              LAMBDA g1 : FriIdentities(k + 1, g1, jones, sources, stations, o))

\* subgroups.sort(lambda a,b:cmp(a.name,b.name))
SortByName(sgs) ==
  LET at(n) == CHOOSE i \in 1..Len(sgs) : sgs[i].name = n
      names == Sorted({ sgs[i].name : i \in 1..Len(sgs) })
  IN  [i \in 1..Len(names) |-> sgs[at(names[i])]]

\* [ jones(src,p,zz) for src in uniqnames for p in stations for zz in a,b ]
FolderNodes(jones, uniqnames, stations, a, b) ==
  [k \in 1..(Len(uniqnames) * Len(stations) * 2) |->
     NodeName(jones,
       <<uniqnames[((k - 1) \div (2 * Len(stations))) + 1],
         stations[(((k - 1) \div 2) % Len(stations)) + 1],
         IF (k - 1) % 2 = 0 THEN a ELSE b>>)]

\* FullRealImag.compute_jones (inherited by DiagRealImag): the result is
\* [g, groups, jobs, folders, npdefs, ret]
FriComputeJones(jones, sources, stationsArg, tagsArg, label, circular, o) ==
  LET stations == Stations(stationsArg)
      pol == IF circular THEN <<"R", "L">> ELSE <<"x", "y">>
      tags == IF tagsArg = None THEN "solvable" ELSE tagsArg \o " solvable"
      uniqnames == Sorted({ JonesName(sources[i], o) : i \in 1..Len(sources) })
      st0 == [g |-> Graph({}, {}), parms_diag |-> <<>>, parms_offdiag |-> <<>>,
              sgdiag |-> <<>>, sgoff |-> <<>>,
              diag_pdefs |-> <<>>, offdiag_pdefs |-> <<>>, offdiag_pdfefs |-> <<>>,
              npdefs |-> 0, subgroups_diag |-> <<>>, subgroups_offdiag |-> <<>>,
              ret |-> Return(jones)]
  IN  Force(FriNames(1, st0, jones, uniqnames, stations, pol, tags, o), LAMBDA st :
      IF st.ret.kind = "raise"
      THEN [g |-> st.g, groups |-> <<>>, jobs |-> <<>>, folders |-> <<>>,
            npdefs |-> st.npdefs, ret |-> st.ret]
      ELSE
        LET g == FriIdentities(1, st.g, jones, sources, stations, o)
            pg_diag == [name |-> label \o "_diag", parms |-> st.parms_diag,
                        subgroups |-> SortByName(st.subgroups_diag),
                        table_name |-> label \o "_diag.fmep"]
            pg_offdiag == [name |-> label \o "_offdiag", parms |-> st.parms_offdiag,
                           subgroups |-> SortByName(st.subgroups_offdiag),
                           table_name |-> label \o "_offdiag.fmep"]
            f_diag == [name |-> label \o " diagonal terms",
                       nodes |-> FolderNodes(jones, uniqnames, stations, "xx", "yy")]
            f_offdiag == [name |-> label \o " off-diagonal terms",
                          nodes |-> FolderNodes(jones, uniqnames, stations, "xy", "yx")]
        IN  [g |-> g,
             groups |-> IF o._offdiag THEN <<pg_diag, pg_offdiag>> ELSE <<pg_diag>>,
             folders |-> IF o._offdiag THEN <<f_diag, f_offdiag>> ELSE <<f_diag>>,
             jobs |-> IF o._offdiag
                      THEN <<"cal_" \o label \o "_diag", "cal_" \o label \o "_offdiag">>
                      ELSE <<"cal_" \o label \o "_diag">>,
             npdefs |-> st.npdefs, ret |-> st.ret])

SkySourceNames == {"A", "B", "C"}
TagValues == {<<>>, <<"int", "5">>, <<"str", "A">>, <<"str", "B">>}
TaggedSource == [name : SkySourceNames, tag : TagValues]
TaggedSourceLists == DistinctSeqs(TaggedSource, MaxSources)

\* an object of either class after construction, with its compile-time options
\* as the user set them
InitFri ==
  /\ \E cls \in {"FullRealImag", "DiagRealImag"}, matrix_type \in {"complex", "real"},
        name_tag \in {"G", None}, independent_solve \in BOOLEAN :
       opts = FriOpts(cls, matrix_type, name_tag, independent_solve)
  /\ beam = BeamInit
  /\ InitRest

\* one model-assembly pass calls compute_jones once, on a new node scope
FullRealImag_compute_jones ==
  /\ call.op = "none"
  /\ \E sources \in TaggedSourceLists, stationsArg \in StationArgs, circular \in BOOLEAN :
       \E r \in {FriComputeJones("J", sources, stationsArg, None, "G", circular, opts)} :
           /\ nodes' = r.g.nodes
           /\ errors' = r.g.errors
           /\ groups' = r.groups
           /\ jobs' = r.jobs
           /\ folders' = r.folders
           /\ call' = [NoCall EXCEPT !.op = "compute_jones", !.cls = opts.cls,
                                     !.sources = sources,
                                     !.stations = Stations(stationsArg),
                                     !.label = "G", !.arg = <<r.npdefs>>,
                                     !.pre = circular, !.ret = r.ret]
           /\ UNCHANGED <<opts, beam, attrs>>

NextFri == FullRealImag_compute_jones
SpecFri == InitFri /\ [][NextFri]_vars

(***************************************************************************)
(* Properties of FullRealImag and DiagRealImag                             *)
(***************************************************************************)
FriCalled(cls) == call.op = "compute_jones" /\ call.cls = cls
FriPol == IF call.pre THEN <<"R", "L">> ELSE <<"x", "y">>
FriDiagQuals == {FriPol[1] \o FriPol[1], FriPol[2] \o FriPol[2]}
FriOffdiagQuals == {FriPol[1] \o FriPol[2], FriPol[2] \o FriPol[1]}
ParmNodes == { n \in nodes : n.def.cls = "Parm" }
ParmsOf(quals) == { n.name : n \in { m \in ParmNodes : m.name.quals[3] \in quals } }
SeqSet(q) == { q[i] : i \in 1..Len(q) }
HasClass(name, cls) == \E n \in nodes : n.name = name /\ n.def.cls = cls
IsSolvableParm(name) ==
  \E n \in ParmNodes : n.name = name /\ n.def.str[1] \in {"solvable diag real",
     "solvable diag imag", "solvable offdiag real", "solvable offdiag imag"}
\* name is bound to cls(child)
IsLinkTo(name, cls, child) ==
  \E n \in nodes : n.name = name /\ n.def.cls = cls /\ n.def.children = <<child>>
\* name is a Matrix22 whose elements that are nodes are built from solvable parms
IsSolvableMatrix22(name) ==
  \E n \in nodes :
    /\ n.name = name /\ n.def.cls = "Matrix22"
    /\ \A i \in 1..4 : n.def.children[i] # Zero =>
         \E e \in nodes : /\ e.name = n.def.children[i]
                          /\ e.def.cls \in {"ToComplex", "Identity"}
                          /\ e.def.children # <<>>
                          /\ \A k \in 1..Len(e.def.children) :
                               IsSolvableParm(e.def.children[k])

\* C1: FullRealImag.compute_jones, called with at least one source and at
\* least one station, returns without raising and registers the parm group
\* '<label>_diag' holding exactly the parms of the xx and yy elements, the parm
\* group '<label>_offdiag' holding exactly the parms of the xy and yx elements,
\* the two being disjoint, and the solve jobs 'cal_<label>_diag' and
\* 'cal_<label>_offdiag'.
C1_FullRealImagRegistersBothGroups ==
  (FriCalled("FullRealImag") /\ call.sources # <<>> /\ call.stations # <<>>) =>
    /\ call.ret.kind = "return"
    /\ Len(groups) = 2
    /\ groups[1].name = call.label \o "_diag"
    /\ groups[2].name = call.label \o "_offdiag"
    /\ SeqSet(groups[1].parms) = ParmsOf(FriDiagQuals)
    /\ SeqSet(groups[2].parms) = ParmsOf(FriOffdiagQuals)
    /\ SeqSet(groups[1].parms) \cap SeqSet(groups[2].parms) = {}
    /\ jobs = <<"cal_" \o call.label \o "_diag", "cal_" \o call.label \o "_offdiag">>

\* src takes part in a chain of tags: the source its tag names is itself
\* redirected by a tag, or src is named by the tag of another source
Redirected(src) == IsStr(src.tag) /\ src.tag[2] # src.name
TagChained(src) ==
  \E i \in 1..Len(call.sources) :
    /\ Redirected(call.sources[i])
    /\ \/ call.sources[i].name = src.tag[2]
       \/ call.sources[i].tag[2] = src.name

\* C2: in FullRealImag/DiagRealImag.compute_jones with name_tag set, for
\* every source A whose tag is a string B other than its own name (A and B
\* not part of a chain of tags) and every station p, jones(A,p) is an
\* Identity of jones(B,p) and jones(B,p) is a Matrix22 built from solvable
\* parms; every source whose tag is absent or not a string has its own
\* Matrix22 at jones(src,p).  With name_tag None every source has its own
\* Matrix22 and no jones(src,p) is an Identity.
C2_NameTagSharesJonesTerm ==
  (call.op = "compute_jones" /\ call.cls \in {"FullRealImag", "DiagRealImag"}) =>
    \A i \in 1..Len(call.sources), k \in 1..Len(call.stations) :
      LET src == call.sources[i]
          p == call.stations[k]
          own == NodeName("J", <<src.name, p>>)
      IN  IF opts.name_tag # None
          THEN /\ (Redirected(src) /\ ~TagChained(src)) =>
                    /\ IsLinkTo(own, "Identity", NodeName("J", <<src.tag[2], p>>))
                    /\ IsSolvableMatrix22(NodeName("J", <<src.tag[2], p>>))
               /\ ~IsStr(src.tag) => IsSolvableMatrix22(own)
          ELSE /\ IsSolvableMatrix22(own)
               /\ ~HasClass(own, "Identity")

\* C5: in FullRealImag/DiagRealImag.compute_jones, with independent_solve
\* enabled every created parm has solve_group equal to the name of its Jones
\* term; with independent_solve disabled every created parm has solve_group ''
\* and the parm definitions are created once and used by every parm.
C5_SolveGroups ==
  (call.op = "compute_jones" /\ call.cls \in {"FullRealImag", "DiagRealImag"}) =>
    IF opts.independent_solve
    THEN \A n \in ParmNodes : n.def.str[2] = n.name.quals[1]
    ELSE /\ \A n \in ParmNodes : n.def.str[2] = "" /\ n.def.num[2] = 1
         /\ call.arg[1] <= 1
C5_Witness ==
  /\ FriCalled("DiagRealImag") /\ call.ret.kind = "return"
  /\ ~opts.independent_solve
  /\ Cardinality({ n.name.quals[1] : n \in ParmNodes }) >= 2
  /\ Len(call.stations) >= 2
  /\ call.arg[1] = 1

\* C8: DiagRealImag.compute_jones, for non-empty sources and stations,
\* returns without raising, makes both off-diagonal elements of every Matrix22
\* the constant 0, creates no off-diagonal parm, and registers only the
\* '<label>_diag' parm group, the 'cal_<label>_diag' solve job and the
\* diagonal bookmark folder.
C8_DiagRealImagIsDiagonal ==
  (FriCalled("DiagRealImag") /\ call.sources # <<>> /\ call.stations # <<>>) =>
    /\ call.ret.kind = "return"
    /\ \E n \in nodes : n.def.cls = "Matrix22"
    /\ \A n \in nodes : n.def.cls = "Matrix22" =>
         n.def.children[2] = Zero /\ n.def.children[3] = Zero
    /\ ParmsOf(FriOffdiagQuals) = {}
    /\ \A n \in nodes : Len(n.name.quals) >= 3 => n.name.quals[3] \notin FriOffdiagQuals
    /\ Len(groups) = 1 /\ groups[1].name = call.label \o "_diag"
    /\ jobs = <<"cal_" \o call.label \o "_diag">>
    /\ Len(folders) = 1 /\ folders[1].name = call.label \o " diagonal terms"
C8_Witness ==
  /\ FriCalled("DiagRealImag") /\ call.ret.kind = "return"
  /\ Len(call.sources) >= 2 /\ Len(call.stations) >= 2
  /\ Cardinality({ n \in nodes : n.def.cls = "Matrix22" }) >= 4
  /\ groups # <<>>

(***************************************************************************)
(* DiagAmplPhase                                                           *)
(***************************************************************************)
\* the characters of a source name, for comparison with pieces of the subset
\* string
NameChars(n) ==
  CASE n = "A" -> <<"A">>
    [] n = "AB" -> <<"A", "B">>
    [] n = "B" -> <<"B">>
    [] n = "C" -> <<"C">>

All == <<"a", "l", "l">>

\* str.split(" "): the pieces between single spaces, empty pieces included
RECURSIVE SplitSpace(_)
SplitSpace(s) ==
  IF \A i \in 1..Len(s) : s[i] # " " THEN <<s>>
  ELSE LET i == CHOOSE k \in 1..Len(s) : s[k] = " " /\ \A j \in 1..(k - 1) : s[j] # " "
       IN  <<SubSeq(s, 1, i - 1)>> \o SplitSpace(SubSeq(s, i + 1, Len(s)))

\* "figure out which sources to apply to"
DapSelectAll(subset, sources) == sources
DapSelect(subset, sources) ==
  IF subset # All
  THEN LET srcset == SeqSet(SplitSpace(subset))
       IN  SelectSeq(sources, LAMBDA src : NameChars(src.name) \in srcset)
  ELSE sources

RECURSIVE BindAll(_, _, _)
BindAll(k, g, binds) ==
  IF k > Len(binds) THEN g
  ELSE Force(Bind(g, binds[k].name, binds[k].def), LAMBDA g1 : BindAll(k + 1, g1, binds))

\* Jones.gain_ap_matrix(jones,ampl,phase,tags=tags,series=stations): for every
\* p in series, jones(p) is a diagonal Matrix22 of Polar(ampl,phase) elements
\* over four parms tagged "solvable ampl" and "solvable phase"
GainApStation(jones, p, ampl, phase) ==
  LET jp == Qual(jones, p)
      b(name, def) == [name |-> name, def |-> def]
  IN  << b(Qual(jp, "xa"), ParmDef(ampl, 1, "solvable ampl", "")),
         b(Qual(jp, "xp"), ParmDef(phase, 1, "solvable phase", "")),
         b(Qual(jp, "ya"), ParmDef(ampl, 1, "solvable ampl", "")),
         b(Qual(jp, "yp"), ParmDef(phase, 1, "solvable phase", "")),
         b(Qual(jp, "x"), NodeDef("Polar", <<Qual(jp, "xa"), Qual(jp, "xp")>>, <<>>, <<>>)),
         b(Qual(jp, "y"), NodeDef("Polar", <<Qual(jp, "ya"), Qual(jp, "yp")>>, <<>>, <<>>)),
         b(jp, NodeDef("Matrix22", <<Qual(jp, "x"), Zero, Zero, Qual(jp, "y")>>,
                       <<>>, <<>>)) >>
RECURSIVE GainApMatrix(_, _, _, _, _, _)
GainApMatrix(k, g, jones, ampl, phase, series) ==
  IF k > Len(series) THEN g
  ELSE Force(BindAll(1, g, GainApStation(jones, series[k], ampl, phase)),
             LAMBDA g1 : GainApMatrix(k + 1, g1, jones, ampl, phase, series))

\* node.search(tags=...): the nodes below node that carry the tags
Search(g, node, tags) ==
  { n.name : n \in { m \in g.nodes :
       /\ m.name.base = node.base
       /\ Len(m.name.quals) >= Len(node.quals)
       /\ SubSeq(m.name.quals, 1, Len(node.quals)) = node.quals
       /\ m.def.cls = "Parm"
       /\ m.def.str[1] = tags } }

\* "for src in sources" of DiagAmplPhase.compute_jones
RECURSIVE DapSources(_, _, _, _, _)
DapSources(k, g, nodesArg, sources, stations) ==
  IF k > Len(sources) THEN g
  ELSE Force(GainApMatrix(1, g, NodeName(nodesArg, <<sources[k].name>>), 1, 0, stations),
             LAMBDA g1 : DapSources(k + 1, g1, nodesArg, sources, stations))

\* DiagAmplPhase.compute_jones: the result is [g, groups, jobs, ret]
DapComputeJones(nodesArg, sourcesArg, stationsArg, label, o) ==
  LET stations == Stations(stationsArg)
      sources == DapSelect(o.subset, sourcesArg)
  IN  IF sources = <<>>
      THEN [g |-> Graph({}, {}), groups |-> <<>>, jobs |-> <<>>, ret |-> Return(None)]
      ELSE
        Force(DapSources(1, Graph({}, {}), nodesArg, sources, stations), LAMBDA g :
          LET sub(tags) ==
                [i \in 1..Len(sources) |->
                   [name |-> sources[i].name,
                    parms |-> Search(g, NodeName(nodesArg, <<sources[i].name>>), tags)]]
              pg(suffix, tags) ==
                [name |-> label \o "_" \o suffix,
                 parms |-> Search(g, NodeName(nodesArg, <<>>), tags),
                 subgroups |-> sub(tags),
                 table_name |-> label \o "_" \o suffix \o ".mep"]
          IN  [g |-> g,
               groups |-> <<pg("phase", "solvable phase"), pg("ampl", "solvable ampl")>>,
               jobs |-> <<"cal_" \o label \o "_phase", "cal_" \o label \o "_ampl">>,
               ret |-> Return(nodesArg)])

DapChars == {"A", "B", " "}
DapSubsets == StringsUpTo(DapChars, MaxSubsetLen) \cup {All}
PlainSourceLists == DistinctSeqs([name : SourceNames, tag : {<<>>}], MaxSources)

\* a DiagAmplPhase object with its subset option as the user set it
InitDap ==
  /\ \E subset \in DapSubsets : opts = [cls |-> "DiagAmplPhase", subset |-> subset]
  /\ beam = BeamInit
  /\ InitRest

\* one model-assembly pass calls compute_jones once, on a new node scope
DiagAmplPhase_compute_jones ==
  /\ call.op = "none"
  /\ \E sources \in PlainSourceLists, stationsArg \in StationArgs :
       \E r \in {DapComputeJones("J", sources, stationsArg, "G", opts)} :
           /\ nodes' = r.g.nodes
           /\ errors' = r.g.errors
           /\ groups' = r.groups
           /\ jobs' = r.jobs
           /\ call' = [NoCall EXCEPT !.op = "compute_jones", !.cls = opts.cls,
                                     !.sources = sources,
                                     !.stations = Stations(stationsArg),
                                     !.label = "G", !.ret = r.ret]
           /\ UNCHANGED <<opts, beam, attrs, folders>>

NextDap == DiagAmplPhase_compute_jones
SpecDap == InitDap /\ [][NextDap]_vars

\* w is one of the pieces of s between spaces (or the ends of s)
IsPiece(s, w) ==
  \E i \in 1..(Len(s) + 1) :
    LET j == i + Len(w) - 1
    IN  /\ j <= Len(s)
        /\ \A k \in 1..Len(w) : s[i + k - 1] = w[k]
        /\ (i = 1 \/ s[i - 1] = " ")
        /\ (j = Len(s) \/ s[j + 1] = " ")
DapRemaining ==
  IF opts.subset = All THEN call.sources
  ELSE SelectSeq(call.sources, LAMBDA src : IsPiece(opts.subset, NameChars(src.name)))
NamesOf(q) == [i \in 1..Len(q) |-> q[i].name]

\* C6: DiagAmplPhase.compute_jones applies the Jones term to all given
\* sources when subset is 'all' and otherwise to the given sources whose name
\* is one of the space-separated pieces of subset, in their original order;
\* when no source remains it returns None and registers no parm group and no
\* solve job; otherwise it returns the nodes argument after registering
\* exactly the parm groups '<label>_phase' and '<label>_ampl', each with one
\* subgroup per selected source, and exactly the solve jobs
\* 'cal_<label>_phase' and 'cal_<label>_ampl'.
C6_DiagAmplPhaseSubset ==
  (call.op = "compute_jones" /\ call.cls = "DiagAmplPhase") =>
    IF DapRemaining = <<>>
    THEN call.ret = Return(None) /\ groups = <<>> /\ jobs = <<>> /\ nodes = {}
    ELSE /\ call.ret = Return("J")
         /\ { n.name.quals[1] : n \in nodes } = SeqSet(NamesOf(DapRemaining))
         /\ Len(groups) = 2
         /\ groups[1].name = call.label \o "_phase"
         /\ groups[2].name = call.label \o "_ampl"
         /\ \A i \in 1..2 : NamesOf(groups[i].subgroups) = NamesOf(DapRemaining)
         /\ jobs = <<"cal_" \o call.label \o "_phase", "cal_" \o call.label \o "_ampl">>
C6_Witness ==
  /\ call.op = "compute_jones" /\ call.cls = "DiagAmplPhase"
  /\ opts.subset # All
  /\ Len(DapRemaining) >= 1 /\ Len(DapRemaining) < Len(call.sources)
  /\ Len(groups) = 2

(***************************************************************************)
(* IntrinsicFR                                                             *)
(***************************************************************************)
ListSeparators == {" ", ","}

\* the maximal runs of characters of s that are not separators
RECURSIVE SplitRuns(_, _, _, _)
SplitRuns(s, i, cur, out) ==
  IF i > Len(s) THEN (IF cur # <<>> THEN Append(out, cur) ELSE out)
  ELSE IF s[i] \in ListSeparators
       THEN SplitRuns(s, i + 1, <<>>, IF cur # <<>> THEN Append(out, cur) ELSE out)
       ELSE SplitRuns(s, i + 1, Append(cur, s[i]), out)

\* self._subset_parser.parse_list(self.subset), for individual indices
\* separated by commas or spaces
ParseList(value) ==
  LET toks == SplitRuns(value, 1, <<>>, <<>>)
  IN  [i \in 1..Len(toks) |-> ParseNum(toks[i])]

\* "figure out which sources to apply to": subset is [none, str]; the result
\* is [ret, sources]
IfrSelectFromOne(subset, sources) ==
  IF ~subset.none /\ subset.str # <<>>
  THEN LET srclist == ParseList(subset.str)
       IN  IF \E k \in 1..Len(srclist) : ~PyIndexOK(sources, srclist[k] - 1)
           THEN [ret |-> Raise("IndexError", "list index out of range"), sources |-> <<>>]
           ELSE [ret |-> Return(None),
                 sources |-> [k \in 1..Len(srclist) |-> PyIndex(sources, srclist[k] - 1)]]
  ELSE [ret |-> Return(None), sources |-> sources]
IfrSelect(subset, sources) ==
  IF ~subset.none /\ subset.str # <<>>
  THEN LET srclist == ParseList(subset.str)
       IN  IF \E k \in 1..Len(srclist) : ~PyIndexOK(sources, srclist[k])
           THEN [ret |-> Raise("IndexError", "list index out of range"), sources |-> <<>>]
           ELSE [ret |-> Return(None),
                 sources |-> [k \in 1..Len(srclist) |-> PyIndex(sources, srclist[k])]]
  ELSE [ret |-> Return(None), sources |-> sources]

\* the body of "for src in sources" of IntrinsicFR.compute_jones
IfrSource(jones, src, stations, tags) ==
  LET jj == NodeName(jones, <<src.name>>)
      b(name, def) == [name |-> name, def |-> def]
      neg == NodeName("-", <<jones, src.name, "sin">>)
      sqr == NodeName("sqr(freq)", <<>>)
  IN  << b(Qual(jj, "RM"), ParmDef(0, 1, tags \o " rm", "")),
         b(NodeName("freq", <<>>), NodeDef("Freq", <<>>, <<>>, <<>>)),
         b(sqr, NodeDef("Sqr", <<NodeName("freq", <<>>)>>, <<>>, <<>>)),
         b(Qual(jj, "fr"), NodeDef("Divide", <<Qual(jj, "RM"), sqr>>, <<>>, <<>>)),
         b(Qual(jj, "cos"), NodeDef("Cos", <<Qual(jj, "fr")>>, <<>>, <<>>)),
         b(Qual(jj, "sin"), NodeDef("Sin", <<Qual(jj, "fr")>>, <<>>, <<>>)),
         b(neg, NodeDef("Negate", <<Qual(jj, "sin")>>, <<>>, <<>>)),
         b(jj, NodeDef("Matrix22", <<Qual(jj, "cos"), neg, Qual(jj, "sin"), Qual(jj, "cos")>>,
                       <<>>, <<>>)) >>
      \o [k \in 1..Len(stations) |->
            b(Qual(jj, stations[k]), NodeDef("Identity", <<jj>>, <<>>, <<>>))]

RECURSIVE IfrSources(_, _, _, _, _, _)
IfrSources(k, g, jones, sources, stations, tags) ==
  IF k > Len(sources) THEN g
  ELSE Force(BindAll(1, g, IfrSource(jones, sources[k], stations, tags)),
             LAMBDA g1 : IfrSources(k + 1, g1, jones, sources, stations, tags))

\* IntrinsicFR.compute_jones: the result is [g, groups, jobs, folders, ret]
IfrComputeJones(jones, sourcesArg, stationsArg, tagsArg, label, o) ==
  LET stations == Stations(stationsArg)
      sel == IfrSelect(o.subset, sourcesArg)
      sources == sel.sources
      tags == IF tagsArg = None THEN "solvable" ELSE tagsArg \o " solvable"
  IN  IF sel.ret.kind = "raise"
      THEN [g |-> Graph({}, {}), groups |-> <<>>, jobs |-> <<>>, folders |-> <<>>,
            ret |-> sel.ret]
      ELSE [g |-> IfrSources(1, Graph({}, {}), jones, sources, stations, tags),
            groups |-> << [name |-> label \o "_fr",
                           parms |-> [i \in 1..Len(sources) |->
                                        NodeName(jones, <<sources[i].name, "RM">>)],
                           subgroups |-> <<>>,
                           table_name |-> label \o "_fr.fmep"] >>,
            folders |-> << [name |-> label \o " Faraday rotation",
                            nodes |-> [i \in 1..Len(sources) |->
                                         NodeName(jones, <<sources[i].name, "fr">>)]] >>,
            jobs |-> <<"cal_" \o label \o "_fr">>,
            ret |-> Return(jones)]

IfrChars == {"0", "1", "2", " ", ","}
IfrSubsets ==
  {[none |-> TRUE, str |-> <<>>]}
    \cup { [none |-> FALSE, str |-> v] : v \in StringsUpTo(IfrChars, MaxSubsetLen) }

\* an IntrinsicFR object with its subset option as the user set it
InitIfr ==
  /\ \E subset \in IfrSubsets : opts = [cls |-> "IntrinsicFR", subset |-> subset]
  /\ beam = BeamInit
  /\ InitRest

\* one model-assembly pass calls compute_jones once, on a new node scope
IntrinsicFR_compute_jones ==
  /\ call.op = "none"
  /\ \E sources \in PlainSourceLists, stationsArg \in StationArgs :
       \E r \in {IfrComputeJones("J", sources, stationsArg, None, "G", opts)} :
           /\ nodes' = r.g.nodes
           /\ errors' = r.g.errors
           /\ groups' = r.groups
           /\ jobs' = r.jobs
           /\ folders' = r.folders
           /\ call' = [NoCall EXCEPT !.op = "compute_jones", !.cls = opts.cls,
                                     !.sources = sources,
                                     !.stations = Stations(stationsArg),
                                     !.label = "G", !.ret = r.ret]
           /\ UNCHANGED <<opts, beam, attrs>>

NextIfr == IntrinsicFR_compute_jones
SpecIfr == InitIfr /\ [][NextIfr]_vars

IfrCalled == call.op = "compute_jones" /\ call.cls = "IntrinsicFR"
IfrIndices == SeqSet(ParseList(opts.subset.str))
JonesNames == { n.name.quals[1] : n \in { m \in nodes : m.name.base = "J" } }
\* what compute_jones leaves for the sources named in selected
IfrBuilt(selected) ==
  /\ call.ret = Return("J")
  /\ \A name \in selected :
       /\ HasClass(NodeName("J", <<name, "RM">>), "Parm")
       /\ HasClass(NodeName("J", <<name>>), "Matrix22")
       /\ \A k \in 1..Len(call.stations) :
            IsLinkTo(NodeName("J", <<name, call.stations[k]>>), "Identity",
                     NodeName("J", <<name>>))
  /\ Len(groups) = 1
  /\ groups[1].name = call.label \o "_fr"
  /\ SeqSet(groups[1].parms) = { NodeName("J", <<name, "RM">>) : name \in selected }
  /\ JonesNames = selected
  /\ jobs = <<"cal_" \o call.label \o "_fr">>

\* C7 as stated: IntrinsicFR.compute_jones applies to all given sources when
\* subset is None and otherwise exactly to the sources at the 0-based indices
\* parsed from the subset string, builds RM, jones(src) and the Identity nodes
\* jones(src,p) for them and none for the others, and registers the parm
\* group '<label>_fr' of their RM nodes and the one solve job 'cal_<label>_fr'.
C7_AnySubsetString ==
  IfrCalled =>
    IfrBuilt(IF opts.subset.none THEN SeqSet(NamesOf(call.sources))
             ELSE { call.sources[i + 1].name :
                      i \in { j \in IfrIndices : j < Len(call.sources) } })

\* C7: IntrinsicFR.compute_jones applies to all given sources when subset is
\* None or empty and otherwise to the sources at the 0-based indices parsed
\* from the subset string.  When every parsed index is below the number of
\* given sources it builds RM, jones(src) and the Identity nodes jones(src,p)
\* for the selected sources and no node for the others, and registers the
\* parm group '<label>_fr' of their RM nodes and the one solve job
\* 'cal_<label>_fr'; when some parsed index is not, it raises and leaves no
\* node, no parm group and no solve job.
C7_IntrinsicFRSubset ==
  IfrCalled =>
    IF opts.subset.none \/ opts.subset.str = <<>>
    THEN IfrBuilt(SeqSet(NamesOf(call.sources)))
    ELSE IF \A i \in IfrIndices : i < Len(call.sources)
         THEN IfrBuilt({ call.sources[i + 1].name : i \in IfrIndices })
         ELSE /\ call.ret.kind = "raise"
              /\ nodes = {} /\ groups = <<>> /\ jobs = <<>>
C7_Witness ==
  /\ IfrCalled /\ ~opts.subset.none
  /\ call.ret = Return("J")
  /\ Len(call.sources) >= 2
  /\ Cardinality(IfrIndices) = 1
  /\ JonesNames = { call.sources[2].name }
  /\ jobs # <<>>
====
